---- MODULE Spec2Model ----
(***************************************************************************)
(* A model of app.py, the clinic appointment booking tool: the four flat   *)
(* files (patients.csv, doctor_schedules.xlsx, appointments_export.xlsx,   *)
(* communications_log.csv) and the functions that read and rewrite them.   *)
(* Files hold text cells; a loaded DataFrame holds typed cells, so every   *)
(* load/save is the conversion pandas performs and not the identity.       *)
(***************************************************************************)
EXTENDS Integers, Sequences, FiniteSets, TLC

VARIABLES patientsCsv, scheduleXlsx, exportXlsx, commLogCsv, last, procs

vars == <<patientsCsv, scheduleXlsx, exportXlsx, commLogCsv, last, procs>>

(***************************************************************************)
(* Bounds of the model and program constants                               *)
(***************************************************************************)
\* days of the seeded grid (range(0, 7) in the code, scaled down)
NumDays == 1
\* half-hour slots per doctor and day (range(16) in the code, scaled down)
NumSlots == 2
\* rows the communications log may reach before the model stops appending
MaxLog == 8
\* rows the patient store may reach before the model stops creating patients
MaxPatients == 12
\* for i in range(1, 11): ten seed patients
NumSeedPatients == 10

(***************************************************************************)
(* Text formatting: f-strings, strftime, isoformat                         *)
(***************************************************************************)
Digit(d) ==
  CASE d = 0 -> "0" [] d = 1 -> "1" [] d = 2 -> "2" [] d = 3 -> "3"
    [] d = 4 -> "4" [] d = 5 -> "5" [] d = 6 -> "6" [] d = 7 -> "7"
    [] d = 8 -> "8" [] d = 9 -> "9"

RECURSIVE ToStr(_)
ToStr(n) == IF n < 10 THEN Digit(n) ELSE ToStr(n \div 10) \o Digit(n % 10)

Pad2(n) == Digit((n \div 10) % 10) \o Digit(n % 10)

Pad3(n) == Digit((n \div 100) % 10) \o Pad2(n)

\* str.lower() on the names the model uses
Lower(s) ==
  CASE s = "Jane Doe" -> "jane doe"
    [] s = "JANE DOE" -> "jane doe"
    [] s = "NA" -> "na"
    [] \E i \in 1..NumSeedPatients : s = "Test Patient " \o ToStr(i) ->
         "test patient " \o ToStr(CHOOSE i \in 1..NumSeedPatients :
                                     s = "Test Patient " \o ToStr(i))
    [] OTHER -> s

(***************************************************************************)
(* Dates and times.  A date is a day offset from datetime.now().date(),    *)
(* taken to be 2025-09-05; a datetime is a day and a minute of that day.   *)
(***************************************************************************)
\* date.strftime("%Y-%m-%d") / date.isoformat()
DateText(day) == "2025-09-" \o Pad2(5 + day)

\* time.strftime("%H:%M")
HourMinute(minute) == Pad2(minute \div 60) \o ":" \o Pad2(minute % 60)

\* datetime.isoformat() of a datetime without microseconds
isoformat(dt) == DateText(dt.day) \o "T" \o HourMinute(dt.minute) \o ":00"

\* datetime.strftime('%Y-%m-%d %H:%M')
strftime(dt) == DateText(dt.day) \o " " \o HourMinute(dt.minute)

\* datetime + timedelta(minutes=m)
PlusMinutes(dt, m) ==
  [day |-> dt.day + ((dt.minute + m) \div 1440), minute |-> (dt.minute + m) % 1440]

\* the datetimes of the model: what fromisoformat has to invert
DateTimes == [day : 0..(NumDays + 1), minute : {m \in 0..1439 : m % 30 = 0}]

\* datetime.fromisoformat: the inverse of isoformat
fromisoformat(s) == CHOOSE dt \in DateTimes : isoformat(dt) = s

ParseError == "ParseError"

\* dateparser.parse(dob).date().strftime("%Y-%m-%d") on the dob texts of the model
ParseDob(dob) ==
  CASE dob = "1995-03-02" -> "1995-03-02"
    [] dob = "March 2, 1995" -> "1995-03-02"
    [] dob = "1990-07-20" -> "1990-07-20"
    [] dob = "20 Jul 1990" -> "1990-07-20"
    [] OTHER -> ParseError

\* dateparser.parse(date_str).date() on the date texts of the model: a day
\* offset, or -1 for a text dateutil rejects
ParseDate(date_str) ==
  CASE \E d \in 0..(NumDays + 1) : date_str = DateText(d) ->
         (CHOOSE d \in 0..(NumDays + 1) : date_str = DateText(d))
    [] date_str = "5 Sep 2025" -> 0
    [] OTHER -> -1

\* dateparser.parse(time_str).time() on the time texts of the model: a minute of
\* the day, or -1 for a text dateutil rejects
ParseTime(time_str) ==
  CASE time_str = "09:00" -> 540
    [] time_str = "9am" -> 540
    [] time_str = "09:05" -> 545
    [] time_str = "09:30" -> 570
    [] time_str = "10:00" -> 600
    [] OTHER -> -1

(***************************************************************************)
(* Cells.  A file holds text; a DataFrame holds strings, numbers or NaN.   *)
(***************************************************************************)
Str(s) == [kind |-> "str", text |-> s]

NaN == [kind |-> "nan", text |-> ""]

\* the texts read_csv and read_excel turn into NaN (keep_default_na=True)
NAValues ==
  {"", "#N/A", "#N/A N/A", "#NA", "-1.#IND", "-1.#QNAN", "-NaN", "-nan",
   "1.#IND", "1.#QNAN", "<NA>", "N/A", "NA", "NULL", "NaN", "None", "n/a",
   "nan", "null"}

\* the integer a text denotes, written as Python writes it; "" when the text
\* is not an integer literal
ParseInt(s) ==
  CASE s = "5550100" -> "5550100"
    [] s = "05550100" -> "5550100"
    [] OTHER -> ""

\* the float a text denotes, written as Python writes it; "" when it is none
ParseFloat(s) ==
  CASE s = "5550100.0" -> "5550100.0"
    [] ParseInt(s) # "" -> ParseInt(s) \o ".0"
    [] OTHER -> ""

\* read_csv's dtype inference over one column of texts
ReadCsvColumn(texts) ==
  LET present == {i \in DOMAIN texts : texts[i] \notin NAValues}
      allInt == \A i \in present : ParseInt(texts[i]) # ""
      allFloat == \A i \in present : ParseFloat(texts[i]) # ""
  IN  [i \in DOMAIN texts |->
         IF i \notin present THEN NaN
         ELSE IF allInt /\ present = DOMAIN texts
           THEN [kind |-> "int", text |-> ParseInt(texts[i])]
         ELSE IF allFloat THEN [kind |-> "float", text |-> ParseFloat(texts[i])]
         ELSE Str(texts[i])] \o <<>>

\* pd.read_csv: every column inferred on its own
ReadCsv(rows, columns) ==
  LET column ==
        [c \in columns |-> ReadCsvColumn([j \in DOMAIN rows |-> rows[j][c]] \o <<>>)]
          @@ <<>>
  IN  [i \in DOMAIN rows |-> [c \in columns |-> column[c][i]]] \o <<>>

\* to_csv of one cell: NaN is written as the empty field
WriteCell(cell) == IF cell.kind = "nan" THEN "" ELSE cell.text

\* df.to_csv(index=False)
WriteCsv(df, columns) ==
  [i \in DOMAIN df |-> [c \in columns |-> WriteCell(df[i][c])]] \o <<>>

\* a cell compared with a Python string (NaN and numbers never equal one)
CellEq(cell, s) == cell.kind = "str" /\ cell.text = s

NoFile == [exists |-> FALSE, rows |-> <<>>]

File(rows) == [exists |-> TRUE, rows |-> rows]

(***************************************************************************)
(* Patients                                                                *)
(***************************************************************************)
PatientColumns ==
  {"patient_id", "name", "dob", "email", "phone", "insurance_carrier",
   "insurance_member_id", "insurance_group"}

\* strftime of base + timedelta(days=i*200), base = 1990-01-01
SeedDob(i) ==
  CASE i = 1 -> "1990-07-20" [] i = 2 -> "1991-02-05" [] i = 3 -> "1991-08-24"
    [] i = 4 -> "1992-03-11" [] i = 5 -> "1992-09-27" [] i = 6 -> "1993-04-15"
    [] i = 7 -> "1993-11-01" [] i = 8 -> "1994-05-20" [] i = 9 -> "1994-12-06"
    [] i = 10 -> "1995-06-24"

SeedPatients ==
  [i \in 1..NumSeedPatients |->
     [patient_id |-> Str("P" \o Pad3(i)),
      name |-> Str("Test Patient " \o ToStr(i)),
      dob |-> Str(SeedDob(i)),
      email |-> Str("patient" \o ToStr(i) \o "@example.com"),
      phone |-> Str("+91-90000000" \o Pad2(i)),
      insurance_carrier |-> Str("Acme Health"),
      insurance_member_id |-> Str("ACME-" \o ToStr(10000 + i)),
      insurance_group |-> Str("GRP-01")]]

load_patients(file) == ReadCsv(file.rows, PatientColumns)

save_patients(df) == File(WriteCsv(df, PatientColumns))

\* df["name"].str.lower(): NaN stays NaN
StrLower(cell) == IF cell.kind = "str" THEN Str(Lower(cell.text)) ELSE NaN

\* find_or_create_patient: what it raises or returns, and the patient store after
find_or_create_patient(file, name, dob, email, phone, carrier, member, group) ==
  LET df == load_patients(file)
      dob_norm == ParseDob(dob)
      match == {i \in DOMAIN df :
                  CellEq(StrLower(df[i].name), Lower(name)) /\ CellEq(df[i].dob, dob_norm)}
      first == CHOOSE i \in match : \A j \in match : i <= j
      row == [patient_id |-> Str("P" \o Pad3(Len(df) + 1)),
              name |-> Str(name), dob |-> Str(dob_norm),
              email |-> Str(email), phone |-> Str(phone),
              insurance_carrier |-> Str(carrier),
              insurance_member_id |-> Str(member),
              insurance_group |-> Str(group)]
  IN  IF dob_norm = ParseError
        THEN [raised |-> TRUE, patient |-> NaN, is_new |-> FALSE, patients |-> file]
      ELSE IF match # {}
        THEN [raised |-> FALSE, patient |-> df[first], is_new |-> FALSE, patients |-> file]
      ELSE [raised |-> FALSE, patient |-> row, is_new |-> TRUE,
            patients |-> save_patients(Append(df, row))]

(***************************************************************************)
(* Slot ledger and booked-subset export                                    *)
(***************************************************************************)
doctors ==
  <<[doctor |-> "Dr. Rao", location |-> "Main Clinic"],
    [doctor |-> "Dr. Iyer", location |-> "Downtown"],
    [doctor |-> "Dr. Mehta", location |-> "Uptown"]>>

\* st.selectbox("Select Doctor", ...)
FormDoctors == {"Dr. Shyam", "Dr. John", "Dr. Mehta"}

\* st.selectbox("Appointment Duration", [30, 60], index=0)
Durations == {30, 60}

\* the slots list ensure_seed_data builds: doctor-major, then day, then k
SeedSlots ==
  [n \in 1..(Len(doctors) * NumDays * NumSlots) |->
     LET d == doctors[((n - 1) \div (NumDays * NumSlots)) + 1]
         day == ((n - 1) \div NumSlots) % NumDays
         k == (n - 1) % NumSlots
         s == PlusMinutes([day |-> day, minute |-> 0], 9 * 60 + 30 * k)
         e == PlusMinutes(s, 30)
     IN  [doctor |-> Str(d.doctor), location |-> Str(d.location),
          start |-> Str(isoformat(s)), end |-> Str(isoformat(e)),
          booked |-> FALSE, patient_id |-> Str("")]]

\* read_excel of one text cell: the NA texts become NaN
ReadExcelCell(text) == IF text \in NAValues THEN NaN ELSE Str(text)

\* pd.read_excel(SCHEDULE_XLSX)
load_schedule(file) ==
  [i \in DOMAIN file.rows |->
     [doctor |-> ReadExcelCell(file.rows[i].doctor),
      location |-> ReadExcelCell(file.rows[i].location),
      start |-> ReadExcelCell(file.rows[i].start),
      end |-> ReadExcelCell(file.rows[i].end),
      booked |-> file.rows[i].booked,
      patient_id |-> ReadExcelCell(file.rows[i].patient_id)]] \o <<>>

\* df.to_excel(index=False): the rows as the workbook holds them
ToExcel(df) ==
  [i \in DOMAIN df |->
     [doctor |-> WriteCell(df[i].doctor), location |-> WriteCell(df[i].location),
      start |-> WriteCell(df[i].start), end |-> WriteCell(df[i].end),
      booked |-> df[i].booked, patient_id |-> WriteCell(df[i].patient_id)]] \o <<>>

save_schedule(df) == File(ToExcel(df))

IsBooked(row) == row.booked = TRUE

\* export_appointments that writes the export only when there is none yet
export_appointments_once(schedule_df, export) ==
  LET booked == SelectSeq(schedule_df, IsBooked)
  IN  IF booked # <<>> /\ ~export.exists THEN File(ToExcel(booked)) ELSE export

\* export_appointments: the export file after the call
export_appointments(schedule_df, export) ==
  LET booked == SelectSeq(schedule_df, IsBooked)
  IN  IF booked # <<>> THEN File(ToExcel(booked)) ELSE export

\* Mask with the doctor test dropped
Mask_AnyDoctor(schedule, doctor, start_iso) ==
  {i \in DOMAIN schedule :
     schedule[i].booked = FALSE /\ CellEq(schedule[i].start, start_iso)}

\* Mask with the booked test dropped
Mask_IgnoreBooked(schedule, doctor, start_iso) ==
  {i \in DOMAIN schedule :
     CellEq(schedule[i].doctor, doctor) /\ CellEq(schedule[i].start, start_iso)}

\* lines 136-140: the rows the mask selects
Mask(schedule, doctor, start_iso) ==
  {i \in DOMAIN schedule :
     /\ CellEq(schedule[i].doctor, doctor)
     /\ schedule[i].booked = FALSE
     /\ CellEq(schedule[i].start, start_iso)}

\* schedule[mask].index[0]
FirstIndex(mask) == CHOOSE i \in mask : \A j \in mask : i <= j

\* SetBooked without the patient_id assignment of line 146
SetBooked_NoPatient(schedule, idx, patient) ==
  [schedule EXCEPT ![idx].booked = TRUE]

\* SetBooked writing to the first row of the table instead of row idx
SetBooked_FirstRow(schedule, idx, patient) ==
  [schedule EXCEPT ![1].booked = TRUE, ![1].patient_id = patient.patient_id]

\* lines 145-146: the two .loc assignments
SetBooked(schedule, idx, patient) ==
  [schedule EXCEPT ![idx].booked = TRUE, ![idx].patient_id = patient.patient_id]

\* book_appointment: what it raises or returns, and the ledger and export after
book_appointment(file, export, patient, doctor, date_str, time_str, duration_minutes) ==
  LET schedule == load_schedule(file)
      date_obj == ParseDate(date_str)
      time_obj == ParseTime(time_str)
      start_dt == [day |-> date_obj, minute |-> time_obj]
      end_dt == PlusMinutes(start_dt, duration_minutes)
      mask == Mask(schedule, doctor, isoformat(start_dt))
      idx == FirstIndex(mask)
      updated == SetBooked(schedule, idx, patient)
  IN  IF date_obj = -1 \/ time_obj = -1
        THEN [ret |-> ParseError, schedule |-> file, export |-> export]
      ELSE IF mask = {}
        THEN [ret |-> "None", start_iso |-> isoformat(start_dt),
              schedule |-> file, export |-> export]
      ELSE [ret |-> "booking", start_iso |-> isoformat(start_dt),
            booking |-> [doctor |-> doctor, start |-> start_dt, end |-> end_dt,
                         location |-> updated[idx].location],
            schedule |-> save_schedule(updated),
            export |-> export_appointments(updated, export)]

(***************************************************************************)
(* Communications log                                                      *)
(***************************************************************************)
LogColumns == {"ts", "email", "phone", "subject", "body"}

\* datetime.now(): the wall clock is not modelled, every message is stamped alike
Now == [day |-> 0, minute |-> 8 * 60]

\* an f-string's rendering of a cell
Fmt(cell) == IF cell.kind = "nan" THEN "nan" ELSE cell.text

\* simulate_email_sms: the log file after the call (body[:4000] keeps these bodies whole)
simulate_email_sms(log, to_email, to_phone, subject, body) ==
  LET row == [ts |-> Str(isoformat(Now)), email |-> to_email, phone |-> to_phone,
              subject |-> Str(subject), body |-> Str(body)]
      df == IF log.exists THEN Append(ReadCsv(log.rows, LogColumns), row) ELSE <<row>>
  IN  File(WriteCsv(df, LogColumns))

\* the plan list of schedule_reminders: subject and body of the four messages
Plan(appt_start_iso, doctor, location) ==
  LET t0 == fromisoformat(appt_start_iso)
      where == doctor \o " at " \o location
  IN  <<[subject |-> "Appointment Confirmation",
         msg |-> "Your appointment with " \o where \o " is confirmed for "
                   \o strftime(t0) \o "."],
        [subject |-> "Reminder 72h",
         msg |-> "Reminder: Appointment with " \o where \o " on " \o strftime(t0) \o "."],
        [subject |-> "Reminder 24h",
         msg |-> "Please confirm and complete forms. Appointment with " \o where
                   \o " on " \o strftime(t0) \o "."],
        [subject |-> "Reminder 2h",
         msg |-> "Final reminder: Appointment with " \o where \o " at "
                   \o strftime(t0) \o ". Reply YES to confirm."]>>

RECURSIVE SendAll(_, _, _, _)
\* the for loop of schedule_reminders from message k on
SendAll(log, patient, plan, k) ==
  IF k > Len(plan) THEN log
  ELSE SendAll(simulate_email_sms(log, patient.email, patient.phone,
                                  "[Clinic] " \o plan[k].subject, plan[k].msg),
               patient, plan, k + 1)

\* schedule_reminders: the log file after the call
schedule_reminders(log, patient, appt_start_iso, doctor, location) ==
  SendAll(log, patient, Plan(appt_start_iso, doctor, location), 1)

(***************************************************************************)
(* Seeding                                                                 *)
(***************************************************************************)
\* ensure_seed_data without the os.path.exists tests
ensure_seed_data_always(patients, schedule) ==
  [patients |-> File(WriteCsv(SeedPatients, PatientColumns)),
   schedule |-> File(ToExcel(SeedSlots))]

\* ensure_seed_data: each store is created only when its file is missing
ensure_seed_data(patients, schedule) ==
  [patients |-> IF ~patients.exists
                  THEN File(WriteCsv(SeedPatients, PatientColumns)) ELSE patients,
   schedule |-> IF ~schedule.exists THEN File(ToExcel(SeedSlots)) ELSE schedule]

(***************************************************************************)
(* The state after construction: an empty working directory                *)
(***************************************************************************)
Idle == [pc |-> "idle"]

Procs == {1, 2}

Init ==
  /\ patientsCsv = NoFile
  /\ scheduleXlsx = NoFile
  /\ exportXlsx = NoFile
  /\ commLogCsv = NoFile
  /\ last = [op |-> "none"]
  /\ procs = [p \in Procs |-> Idle]

\* every function below runs after line 158 has seeded the stores
Seeded == patientsCsv.exists /\ scheduleXlsx.exists

(***************************************************************************)
(* Operations run one at a time                                            *)
(***************************************************************************)
\* a run of the script that submits nothing: line 158 and the read-only views
EnsureSeedData ==
  \E s \in {ensure_seed_data(patientsCsv, scheduleXlsx)} :
    /\ patientsCsv' = s.patients
    /\ scheduleXlsx' = s.schedule
    /\ last' = [op |-> "ensure_seed_data"]
    /\ UNCHANGED <<exportXlsx, commLogCsv, procs>>

FindOrCreatePatient(name, dob, email, phone) ==
  /\ Seeded
  /\ \E r \in {find_or_create_patient(patientsCsv, name, dob, email, phone,
                                      "Blue Shield", "M-123", "A1")} :
         /\ r.is_new => Len(patientsCsv.rows) < MaxPatients
         /\ patientsCsv' = r.patients
         /\ last' = [op |-> "find_or_create_patient", name |-> name,
                     dob_norm |-> ParseDob(dob), raised |-> r.raised,
                     patient |-> r.patient, is_new |-> r.is_new]
  /\ UNCHANGED <<scheduleXlsx, exportXlsx, commLogCsv, procs>>

\* what a book_appointment call leaves for its caller to see
Outcome(r, patient, doctor, duration) ==
  IF r.ret = "booking"
    THEN [op |-> "book_appointment", ret |-> r.ret, patient_id |-> patient.patient_id,
          doctor |-> doctor, duration |-> duration, start_iso |-> r.start_iso,
          booking |-> r.booking]
  ELSE IF r.ret = "None"
    THEN [op |-> "book_appointment", ret |-> r.ret, doctor |-> doctor,
          start_iso |-> r.start_iso]
  ELSE [op |-> "book_appointment", ret |-> r.ret]

BookAppointment(patient, doctor, date_str, time_str, duration) ==
  /\ Seeded
  /\ \E r \in {book_appointment(scheduleXlsx, exportXlsx, patient, doctor,
                                date_str, time_str, duration)} :
         /\ scheduleXlsx' = r.schedule
         /\ exportXlsx' = r.export
         /\ last' = Outcome(r, patient, doctor, duration)
  /\ UNCHANGED <<patientsCsv, commLogCsv, procs>>

\* the process dies between save_schedule (line 148) and export_appointments (line 149)
BookAppointmentCrash(patient, doctor, date_str, time_str, duration) ==
  /\ Seeded
  /\ \E r \in {book_appointment(scheduleXlsx, exportXlsx, patient, doctor,
                                date_str, time_str, duration)} :
         /\ r.ret = "booking"
         /\ scheduleXlsx' = r.schedule
         /\ last' = [op |-> "book_appointment", ret |-> "crash"]
  /\ UNCHANGED <<patientsCsv, exportXlsx, commLogCsv, procs>>

ScheduleReminders(patient, appt_start_iso, doctor, location) ==
  /\ Seeded
  /\ Len(commLogCsv.rows) + 4 <= MaxLog
  /\ commLogCsv' = schedule_reminders(commLogCsv, patient, appt_start_iso, doctor, location)
  /\ last' = [op |-> "schedule_reminders", patient_id |-> patient.patient_id]
  /\ UNCHANGED <<patientsCsv, scheduleXlsx, exportXlsx, procs>>

\* lines 191-200 once book_appointment has returned a booking
SubmitBooked(f, b, doctor) ==
  /\ patientsCsv' = f.patients
  /\ scheduleXlsx' = b.schedule
  /\ exportXlsx' = b.export
  /\ commLogCsv' = schedule_reminders(commLogCsv, f.patient, isoformat(b.booking.start),
                                      b.booking.doctor, Fmt(b.booking.location))
  /\ last' = [op |-> "submit", outcome |-> "booked", doctor |-> doctor,
              patient |-> f.patient]

\* a submission that ends in an exception or in st.error: what was saved stays saved
SubmitFailed(patients, schedule, outcome, doctor) ==
  /\ patientsCsv' = patients
  /\ scheduleXlsx' = schedule
  /\ last' = [op |-> "submit", outcome |-> outcome, doctor |-> doctor]
  /\ UNCHANGED <<exportXlsx, commLogCsv>>

\* lines 158 and 181-202: a run of the script with the form submitted
Submit(name, dob, email, phone, doctor, date_str, time_str, duration) ==
  /\ Seeded
  /\ \E s \in {ensure_seed_data(patientsCsv, scheduleXlsx)} :
     \E f \in {find_or_create_patient(s.patients, name, dob, email, phone,
                                      "Blue Shield", "M-123", "A1")} :
       IF f.raised
         THEN SubmitFailed(s.patients, s.schedule, ParseError, doctor)
       ELSE \E b \in {book_appointment(s.schedule, exportXlsx, f.patient, doctor,
                                       date_str, time_str, duration)} :
              IF b.ret = ParseError
                THEN SubmitFailed(f.patients, s.schedule, ParseError, doctor)
              ELSE IF b.ret = "None"
                THEN SubmitFailed(f.patients, s.schedule, "SlotUnavailable", doctor)
              ELSE SubmitBooked(f, b, doctor)
  /\ UNCHANGED procs

(***************************************************************************)
(* The inputs the specifications draw                                      *)
(***************************************************************************)
\* doctors a direct caller asks for: two of the ledger, one the ledger lacks
CallDoctors == {"Dr. Rao", "Dr. Mehta", "Dr. Shyam"}

DateInputs == {"2025-09-05", "someday"}

TimeInputs == {"09:00", "09:05", "09:30", "25:00"}

\* the patient dicts a direct caller passes
Callers == {SeedPatients[1], SeedPatients[2]}

Next ==
  \/ EnsureSeedData
  \/ \E patient \in Callers, doctor \in CallDoctors, date_str \in DateInputs,
        time_str \in TimeInputs, duration \in Durations :
       BookAppointment(patient, doctor, date_str, time_str, duration)
  \/ \E doctor \in CallDoctors, time_str \in TimeInputs :
       BookAppointmentCrash(SeedPatients[3], doctor, "2025-09-05", time_str, 30)

Spec == Init /\ [][Next]_vars

(***************************************************************************)
(* Properties of book_appointment                                          *)
(***************************************************************************)
BookedRows(rows) == {i \in DOMAIN rows : rows[i].booked}

\* the rows of a ledger file that are free for a doctor at a start
FreeRows(rows, doctor, start_iso) ==
  {i \in DOMAIN rows :
     rows[i].doctor = doctor /\ ~rows[i].booked /\ rows[i].start = start_iso}

BookingReturned == last.op = "book_appointment" /\ last.ret = "booking"

\* C1: a book_appointment call that returns a booking changes exactly one ledger
\* row, the first free row of the requested doctor and start, to booked with the
\* patient's id; the row count stays, the booked count grows by one, and the
\* duration shows only in the returned end.
C1_BookFlipsFirstFreeRow ==
  [][BookingReturned' =>
       LET old == scheduleXlsx.rows
           new == scheduleXlsx'.rows
           free == FreeRows(old, last'.doctor, last'.start_iso)
           k == CHOOSE i \in free : \A j \in free : i <= j
       IN  /\ free # {}
           /\ Len(new) = Len(old)
           /\ new[k] = [old[k] EXCEPT !.booked = TRUE,
                                       !.patient_id = last'.patient_id.text]
           /\ \A i \in DOMAIN old : i # k => new[i] = old[i]
           /\ Cardinality(BookedRows(new)) = Cardinality(BookedRows(old)) + 1
           /\ isoformat(last'.booking.start) = last'.start_iso
           /\ last'.booking.end = PlusMinutes(last'.booking.start, last'.duration)]_vars

\* a 60-minute booking returned on a ledger that already held a booked row
C1_Witness ==
  /\ BookingReturned
  /\ last.duration = 60
  /\ Cardinality(BookedRows(scheduleXlsx.rows)) >= 2

\* C2: once a (doctor, start) slot is booked, a further book_appointment call for
\* it, by any patient, returns None and leaves the ledger and the export as they were.
C2_RebookReturnsNone ==
  [][(/\ last'.op = "book_appointment"
      /\ last'.ret \in {"None", "booking"}
      /\ \E i \in BookedRows(scheduleXlsx.rows) :
           /\ scheduleXlsx.rows[i].doctor = last'.doctor
           /\ scheduleXlsx.rows[i].start = last'.start_iso)
     => /\ last'.ret = "None"
        /\ scheduleXlsx' = scheduleXlsx
        /\ exportXlsx' = exportXlsx]_vars

\* a call for a slot that is booked has returned None
C2_Witness ==
  /\ last.op = "book_appointment"
  /\ last.ret = "None"
  /\ \E i \in BookedRows(scheduleXlsx.rows) :
       /\ scheduleXlsx.rows[i].doctor = last.doctor
       /\ scheduleXlsx.rows[i].start = last.start_iso

\* the booked subset of the ledger file, in ledger order
BookedSubset == SelectSeq(scheduleXlsx.rows, IsBooked)

\* C7: right after a book_appointment call that completes with a booking, the
\* export holds exactly the booked rows of the ledger, in order, whatever it held
\* before, also when an earlier call died before writing it.
C7_ExportIsBookedSubset ==
  BookingReturned => exportXlsx.exists /\ exportXlsx.rows = BookedSubset

\* a booking completed on a ledger holding a row that only a crashed call booked
C7_Witness ==
  /\ BookingReturned
  /\ \E i \in BookedRows(scheduleXlsx.rows) :
       scheduleXlsx.rows[i].patient_id = SeedPatients[3].patient_id.text
  /\ exportXlsx.rows = BookedSubset

(***************************************************************************)
(* All four operations, one at a time                                      *)
(***************************************************************************)
\* the patient dicts in reach of a caller: the first seed patient and every
\* patient created since
StoredCallers ==
  LET df == load_patients(patientsCsv)
  IN  {df[i] : i \in {j \in DOMAIN df : j = 1 \/ j > NumSeedPatients}}

NextOps ==
  \/ EnsureSeedData
  \/ FindOrCreatePatient("Jane Doe", "1995-03-02", "jane@example.com", "+91-5550100")
  \/ \E patient \in StoredCallers, doctor \in {"Dr. Mehta", "Dr. Shyam"},
        time_str \in {"09:00", "09:30"} :
       BookAppointment(patient, doctor, "2025-09-05", time_str, 30)
  \/ \E patient \in StoredCallers :
       ScheduleReminders(patient, SeedSlots[1].start.text, doctors[3].doctor,
                         doctors[3].location)

SpecOps == Init /\ [][NextOps]_vars

\* C8: across seed, find_or_create_patient, book_appointment and
\* schedule_reminders steps the ledger keeps its rows, their order and their
\* doctor, location, start and end; a booked row stays booked and keeps its
\* patient_id.
C8_SlotBookedAtMostOnce ==
  [][scheduleXlsx.exists =>
       LET old == scheduleXlsx.rows
           new == scheduleXlsx'.rows
       IN  /\ scheduleXlsx'.exists
           /\ Len(new) = Len(old)
           /\ \A i \in DOMAIN old :
                /\ new[i].doctor = old[i].doctor
                /\ new[i].location = old[i].location
                /\ new[i].start = old[i].start
                /\ new[i].end = old[i].end
                /\ old[i].booked =>
                     new[i].booked /\ new[i].patient_id = old[i].patient_id]_vars

\* a booked slot was asked for again, with a patient created and reminders logged
C8_Witness ==
  /\ last.op = "book_appointment"
  /\ last.ret = "None"
  /\ \E i \in BookedRows(scheduleXlsx.rows) :
       /\ scheduleXlsx.rows[i].doctor = last.doctor
       /\ scheduleXlsx.rows[i].start = last.start_iso
  /\ Len(patientsCsv.rows) > NumSeedPatients
  /\ commLogCsv.exists

(***************************************************************************)
(* The patient directory                                                   *)
(***************************************************************************)
\* names typed into the form; the form accepts an empty name
NameInputs == {"Jane Doe", "JANE DOE", "test patient 1", "", "nan"}

DobInputs == {"1995-03-02", "March 2, 1995", "1990-07-20", "not a date"}

NextPatients ==
  \/ EnsureSeedData
  \/ \E name \in NameInputs, dob \in DobInputs :
       FindOrCreatePatient(name, dob, "jane@example.com", "+91-5550100")

SpecPatients == Init /\ [][NextPatients]_vars

FindReturned == last.op = "find_or_create_patient" /\ ~last.raised

\* the second of two find_or_create_patient calls with names equal ignoring
\* case and the same normalized dob
SecondCall ==
  /\ FindReturned
  /\ FindReturned'
  /\ Lower(last'.name) = Lower(last.name)
  /\ last'.dob_norm = last.dob_norm

\* C3: find_or_create_patient called twice with the same normalized dob and a
\* name equal ignoring case: the second call returns is_new=False and the row of
\* the first call, and leaves the patient store as it was.
C3_FindOrCreateIdempotent ==
  [][SecondCall =>
       /\ ~last'.is_new
       /\ last'.patient.patient_id = last.patient.patient_id
       /\ patientsCsv' = patientsCsv]_vars

\* the same, for the names read_csv hands back as strings
C3_IdempotentForStoredNames ==
  [][(SecondCall /\ last.name \notin NAValues) =>
       /\ ~last'.is_new
       /\ last'.patient.patient_id = last.patient.patient_id
       /\ patientsCsv' = patientsCsv]_vars

(***************************************************************************)
(* Form submissions                                                        *)
(***************************************************************************)
\* who fills the form: a new patient, the first seed patient in lower case, and
\* a date of birth dateutil rejects
People ==
  {[name |-> "Jane Doe", dob |-> "1995-03-02"],
   [name |-> "test patient 1", dob |-> "1990-07-20"],
   [name |-> "Jane Doe", dob |-> "not a date"]}

\* phones typed into the form: digits with a trunk zero, and the placeholder's shape
PhoneInputs == {"05550100", "+91-5550100"}

NextForm ==
  \/ EnsureSeedData
  \/ \E who \in People, phone \in PhoneInputs, doctor \in FormDoctors,
        date_str \in DateInputs, time_str \in {"09:00", "09:30", "25:00"},
        duration \in Durations :
       Submit(who.name, who.dob, "jane@example.com", phone, doctor, date_str,
              time_str, duration)

SpecForm == Init /\ [][NextForm]_vars

Subjects ==
  <<"Appointment Confirmation", "Reminder 72h", "Reminder 24h", "Reminder 2h">>

Stores == <<patientsCsv, scheduleXlsx, exportXlsx, commLogCsv>>

\* C4: a submission whose booking succeeds appends exactly four rows to the
\* communications log (confirmation, 72h, 24h, 2h), all to the booked patient's
\* email and phone, and every earlier row stays where and as it was.
C4_FourRowsAppended ==
  [][(last'.op = "submit" /\ last'.outcome = "booked") =>
       LET old == commLogCsv.rows
           new == commLogCsv'.rows
       IN  /\ Len(new) = Len(old) + 4
           /\ \A i \in DOMAIN old : new[i] = old[i]
           /\ \A k \in 1..4 :
                /\ new[Len(old) + k].subject = "[Clinic] " \o Subjects[k]
                /\ new[Len(old) + k].email = WriteCell(last'.patient.email)
                /\ new[Len(old) + k].phone = WriteCell(last'.patient.phone)]_vars

\* the part of C4 that survives the CSV round trip: four rows, in order, and the
\* ts, subject and body of the earlier rows
C4_FourRowsInOrder ==
  [][(last'.op = "submit" /\ last'.outcome = "booked") =>
       LET old == commLogCsv.rows
           new == commLogCsv'.rows
       IN  /\ Len(new) = Len(old) + 4
           /\ \A i \in DOMAIN old :
                /\ new[i].ts = old[i].ts
                /\ new[i].subject = old[i].subject
                /\ new[i].body = old[i].body
           /\ \A k \in 1..4 :
                new[Len(old) + k].subject = "[Clinic] " \o Subjects[k]]_vars

\* C5: a submission that ends as slot-not-available changes no store.
C5_UnavailableChangesNothing ==
  [][(last'.op = "submit" /\ last'.outcome = "SlotUnavailable") =>
       Stores' = Stores]_vars

\* C6: a submission rejected for an unparseable date or time changes no store.
C6_ParseErrorChangesNothing ==
  [][(last'.op = "submit" /\ last'.outcome = ParseError) => Stores' = Stores]_vars

\* what C5 and C6 leave standing: a failed submission changes nothing but the
\* patient store
FailedSubmitKeepsLedgerAndLog ==
  [][(last'.op = "submit" /\ last'.outcome # "booked") =>
       /\ scheduleXlsx' = scheduleXlsx
       /\ exportXlsx' = exportXlsx
       /\ commLogCsv' = commLogCsv]_vars

LoadLedger(p, time_str) ==
  /\ Seeded
  /\ procs[p].pc = "idle"
  /\ procs' = [procs EXCEPT ![p] =
                 [pc |-> "loaded", patient |-> SeedPatients[p], doctor |-> "Dr. Mehta",
                  start_dt |-> [day |-> ParseDate("2025-09-05"),
                                minute |-> ParseTime(time_str)],
                  schedule |-> load_schedule(scheduleXlsx), idx |-> 0,
                  ret |-> "running", saved |-> 0]]
  /\ UNCHANGED <<patientsCsv, scheduleXlsx, exportXlsx, commLogCsv, last>>

\* lines 136-144: compute the mask; return None when it selects nothing
CheckMask(p) ==
  /\ procs[p].pc = "loaded"
  /\ \E mask \in {Mask(procs[p].schedule, procs[p].doctor, isoformat(procs[p].start_dt))} :
       procs' = [procs EXCEPT ![p] =
                   IF mask = {} THEN [@ EXCEPT !.pc = "done", !.ret = "None"]
                   ELSE [@ EXCEPT !.pc = "checked", !.idx = FirstIndex(mask)]]
  /\ UNCHANGED <<patientsCsv, scheduleXlsx, exportXlsx, commLogCsv, last>>

\* lines 145-146: set the row in the process's own copy
SetRow(p) ==
  /\ procs[p].pc = "checked"
  /\ procs' = [procs EXCEPT ![p].pc = "set",
                            ![p].schedule = SetBooked(@, procs[p].idx, procs[p].patient)]
  /\ UNCHANGED <<patientsCsv, scheduleXlsx, exportXlsx, commLogCsv, last>>

\* how many save_schedule calls have completed
SavesDone == Cardinality({q \in Procs : procs[q].pc \in {"saved", "done"} /\ procs[q].saved > 0})

\* line 148: write the process's copy over the ledger file
SaveLedger(p) ==
  /\ procs[p].pc = "set"
  /\ scheduleXlsx' = save_schedule(procs[p].schedule)
  /\ procs' = [procs EXCEPT ![p].pc = "saved", ![p].saved = SavesDone + 1]
  /\ UNCHANGED <<patientsCsv, exportXlsx, commLogCsv, last>>

\* lines 149-150: write the export and return the booking
ExportAndReturn(p) ==
  /\ procs[p].pc = "saved"
  /\ exportXlsx' = export_appointments(procs[p].schedule, exportXlsx)
  /\ procs' = [procs EXCEPT ![p].pc = "done", ![p].ret = "booking"]
  /\ UNCHANGED <<patientsCsv, scheduleXlsx, commLogCsv, last>>

NextConc ==
  \/ EnsureSeedData
  \/ \E p \in Procs, time_str \in {"09:00", "09:30"} : LoadLedger(p, time_str)
  \/ \E p \in Procs : CheckMask(p)
  \/ \E p \in Procs : SetRow(p)
  \/ \E p \in Procs : SaveLedger(p)
  \/ \E p \in Procs : ExportAndReturn(p)

SpecConc == Init /\ [][NextConc]_vars

\* both calls have returned a booking for the same slot
DoubleBooked(p, q) ==
  /\ p # q
  /\ procs[p].pc = "done" /\ procs[p].ret = "booking"
  /\ procs[q].pc = "done" /\ procs[q].ret = "booking"
  /\ procs[p].start_dt = procs[q].start_dt

\* C9: two concurrent book_appointment calls for one free slot can both return
\* a booking; when they do, the ledger holds a single booked row for the slot,
\* with the patient_id of the call that saved last.
C9_LostUpdate ==
  \A p, q \in Procs :
    (DoubleBooked(p, q) /\ procs[p].saved < procs[q].saved) =>
      LET rows == scheduleXlsx.rows
          slot == {i \in DOMAIN rows :
                     /\ rows[i].doctor = procs[q].doctor
                     /\ rows[i].start = isoformat(procs[q].start_dt)}
      IN  /\ Cardinality(slot) = 1
          /\ BookedRows(rows) = slot
          /\ \A i \in slot : rows[i].patient_id = procs[q].patient.patient_id.text

\* the interleaving exists: both calls returned a booking for the same slot
C9_Witness == \E p, q \in Procs : DoubleBooked(p, q)

====
